---- MODULE Spec2Model ----
(***************************************************************************)
(* Merge recovery of elliptics (recovery/elliptics_recovery/types/merge.py)*)
(* as a state machine: the per-key Recovery object with its callback chain *)
(* (run / onlookup / onread / onwrite / onremove), the batch driver        *)
(* recover() with the waiting thread of Recovery.wait(), the dump variant  *)
(* DumpRecover, and the pure range computation get_ranges().               *)
(***************************************************************************)
EXTENDS Integers, Sequences, FiniteSets, TLC

\* ------------------------------------------------------------------ bounds
\* ctx.attempts ranges over 0..MaxAttempts
MaxAttempts == 1
\* object sizes (as the iterator reports them and as they really are) range over 1..MaxSize
MaxSize == 3
\* ctx.chunk_size ranges over 1..MaxChunk
MaxChunk == 2
\* how many times run() is invoked on one Recovery object at most
MaxRuns == 2
\* replica timestamps range over 0..MaxTs; a write made now is stamped Now
MaxTs == 2
\* the nodes of the group are 1..NumAddrs
NumAddrs == 3
\* the iterator hands recover() MaxRecords records
MaxRecords == 2
\* the keys of the group are ID_MIN..KeyMax
KeyMax == 4

VARIABLES
    ctx,      \* the configuration bundle (merge.py: ctx.safe, ctx.dry_run, ...)
    owner,    \* owner[k]: session.lookup_address(key k, group)
    store,    \* store[k][a]: the replica of key k node a holds
    live,     \* the Recovery objects constructed so far
    rec,      \* rec[k]: the fields of the Recovery object of key k
    dump,     \* the fields of the DumpRecover object (dump recovery)
    drv,      \* recover(): its locals and the position of its thread
    routes,   \* the routing table of the group
    ranges    \* what get_ranges returned

vars == <<ctx, owner, store, live, rec, dump, drv, routes, ranges>>

Min(a, b) == IF a < b THEN a ELSE b

\* Keys double as task identifiers: one Recovery object per key.
Keys == 1..MaxRecords
Addrs == 1..NumAddrs

\* A replica: its timestamp and size.  ts = -1 stands for "no replica"
\* (what LookupDirect hands to its callback on a miss or a failed lookup).
NoReplica == [ts |-> -1, size |-> 0]

\* RecoverStat(): all counters zero.
ZeroStat ==
    [skipped |-> 0, read |-> 0, read_bytes |-> 0, read_retries |-> 0,
     read_failed |-> 0, write |-> 0, written_bytes |-> 0, write_retries |-> 0,
     write_failed |-> 0, removed |-> 0, remove_failed |-> 0]

\* What an observer of the task's storage traffic has seen so far: requests
\* issued and acknowledged, per kind.  Not fields of the Recovery object.
ZeroLog ==
    [runs |-> 0, lookups |-> 0, reads |-> 0, ok_reads |-> 0,
     prepares |-> 0, plains |-> 0, commits |-> 0, datas |-> 0,
     ok_prepares |-> 0, ok_plains |-> 0, ok_commits |-> 0, ok_datas |-> 0,
     removes |-> 0, op |-> <<"none", 0>>, tries |-> 0, cb |-> 0,
     seen_ts |-> -1, r0 |-> 0, w0 |-> 0, exc |-> 0]

\* Recovery.__init__
NewRecovery(timestamp, size, address, check, callback) ==
    [key_timestamp |-> timestamp, address |-> address, dest_address |-> 0,
     result |-> TRUE, attempt |-> 0, total_size |-> size, recovered_size |-> 0,
     just_remove |-> FALSE, chunked |-> size > ctx.chunk_size,
     check |-> check, callback |-> callback, stats |-> ZeroStat,
     lookup_result |-> "unset", read_result |-> "unset",
     write_result |-> "unset", remove_result |-> "unset",
     read_req |-> [offset |-> 0, size |-> 0],
     write_req |-> [kind |-> "none", offset |-> 0, size |-> 0, psize |-> 0],
     write_size |-> 0, timestamp |-> -1, nocsum |-> FALSE,
     session_timeout |-> 1, direct_timeout |-> 1,
     log |-> ZeroLog]

\* The observer's record of one more request of `kind` at `offset`.
Track(log, kind, offset) ==
    [log EXCEPT !.op = <<kind, offset>>,
                !.tries = IF log.op = <<kind, offset>> THEN @ + 1 ELSE 1]

\* self.callback(self.result, self.stats), when a callback was supplied
Callback(r) ==
    IF r.callback THEN [r EXCEPT !.log.cb = @ + 1] ELSE r

\* The timestamp a write issued during the run is stored with: write_data is
\* called without a timestamp, so the server stamps the current time.
Now == MaxTs + 1

\* ------------------------------------------------------- Recovery: requests

\* Recovery.read: the size asked for (0 stands for "to the end of the object")
ReadSize(r) ==
    IF r.chunked THEN Min(r.total_size - r.recovered_size, ctx.chunk_size) ELSE 0

\* Recovery.read; raise: read_data raises, which read() itself catches
Read(r, raise) ==
    LET f == [r EXCEPT !.nocsum = @ \/ (r.recovered_size # 0)]
    IN  IF raise
        THEN [f EXCEPT !.result = FALSE, !.log.exc = @ + 1]
        ELSE [f EXCEPT !.read_result = "pending",
                       !.read_req = [offset |-> r.recovered_size, size |-> ReadSize(r)],
                       !.log = [Track(@, "read", r.recovered_size) EXCEPT
                                   !.reads = @ + 1,
                                   !.r0 = IF r.log.op = <<"read", r.recovered_size>>
                                          THEN @ ELSE r.stats.read_retries]]

\* WriteKind with the "middle chunk" test made before the "first chunk" test
WriteKindPlainFirst(r) ==
    IF r.chunked
    THEN IF r.recovered_size + r.write_size < r.total_size THEN "plain"
         ELSE IF r.recovered_size = 0 THEN "prepare"
         ELSE "commit"
    ELSE "data"

\* Recovery.write: which of the four write calls is made
WriteKind(r) ==
    IF r.chunked
    THEN IF r.recovered_size = 0 THEN "prepare"
         ELSE IF r.recovered_size + r.write_size < r.total_size THEN "plain"
         ELSE "commit"
    ELSE "data"

\* Recovery.write, when the write call returns an async result
Write(r) ==
    LET kind == WriteKind(r)
    IN  [r EXCEPT !.write_result = "pending",
                  !.write_req = [kind |-> kind, offset |-> r.recovered_size,
                                 size |-> r.write_size, psize |-> r.total_size],
                  !.log = [Track(@, "write", r.recovered_size) EXCEPT
                              !.prepares = @ + (IF kind = "prepare" THEN 1 ELSE 0),
                              !.plains = @ + (IF kind = "plain" THEN 1 ELSE 0),
                              !.commits = @ + (IF kind = "commit" THEN 1 ELSE 0),
                              !.datas = @ + (IF kind = "data" THEN 1 ELSE 0),
                              !.w0 = IF r.log.op = <<"write", r.recovered_size>>
                                     THEN @ ELSE r.stats.write_retries]]

\* The except clause of onlookup / onread / onwrite
Caught(r) ==
    Callback([r EXCEPT !.result = FALSE, !.log.exc = @ + 1])

\* Recovery.write inside a handler; raise: the write call raises, write() sets
\* result and re-raises, and the handler's except clause catches it
WriteOrRaise(r, raise) ==
    IF raise THEN Caught([r EXCEPT !.result = FALSE]) ELSE Write(r)

\* Remove without the test of ctx.safe
RemoveUnsafe(r) ==
    [r EXCEPT !.remove_result = "pending",
              !.log = [Track(@, "remove", 0) EXCEPT !.removes = @ + 1]]

\* Recovery.remove
Remove(r) ==
    IF ~ctx.safe
    THEN [r EXCEPT !.remove_result = "pending",
                   !.log = [Track(@, "remove", 0) EXCEPT !.removes = @ + 1]]
    ELSE Callback(r)

\* ------------------------------------------------------- Recovery: handlers

\* AlreadyOnRightNode comparing with the wrong field of the object
AlreadyOnRightNodeWrongField(address, r) ==
    address = r.dest_address

\* Recovery.run: the key is already where routing puts it
AlreadyOnRightNode(address, r) ==
    address = r.address

\* Recovery.run; address: session.lookup_address(key, group)
RunFn(r, address, raise) ==
    LET s == [r EXCEPT !.log.runs = @ + 1]
    IN  IF AlreadyOnRightNode(address, r)
        THEN [s EXCEPT !.stats.skipped = @ + 1]
        ELSE LET d == [s EXCEPT !.dest_address = address]
             IN  IF r.check
                 THEN [d EXCEPT !.lookup_result = "pending",
                                !.log = [Track(@, "lookup", 0) EXCEPT !.lookups = @ + 1]]
                 ELSE IF ctx.dry_run THEN d
                 ELSE Read([d EXCEPT !.attempt = 0], raise)

\* OwnerIsNewer with <= for <
OwnerIsNewerOrEqual(key_timestamp, result) ==
    result.ts # -1 /\ key_timestamp <= result.ts

\* OwnerIsNewer with > for <
OwnerIsOlder(key_timestamp, result) ==
    result.ts # -1 /\ key_timestamp > result.ts

\* OwnerIsNewer that takes a copy of the same age for a newer one
OwnerIsNotOlder(key_timestamp, result) ==
    result.ts # -1 /\ ~(result.ts < key_timestamp)

\* Recovery.onlookup: "result and self.key_timestamp < result.timestamp"
OwnerIsNewer(key_timestamp, result) ==
    result.ts # -1 /\ key_timestamp < result.ts

\* OnLookupFn without the dry-run test of the "owner is newer" branch
OnLookupFnNoDryRunTest(r, result, raise) ==
    LET s == [r EXCEPT !.lookup_result = "none", !.log.seen_ts = result.ts]
    IN  IF OwnerIsNewer(r.key_timestamp, result)
        THEN Remove([s EXCEPT !.just_remove = TRUE, !.attempt = 0])
        ELSE IF ctx.dry_run THEN s
        ELSE Read([s EXCEPT !.attempt = 0], raise)

\* Recovery.onlookup; result: what LookupDirect found on the owner
OnLookupFn(r, result, raise) ==
    LET s == [r EXCEPT !.lookup_result = "none", !.log.seen_ts = result.ts]
    IN  IF OwnerIsNewer(r.key_timestamp, result)
        THEN LET j == [s EXCEPT !.just_remove = TRUE]
             IN  IF ctx.dry_run THEN j ELSE Remove([j EXCEPT !.attempt = 0])
        ELSE IF ctx.dry_run THEN s
        ELSE Read([s EXCEPT !.attempt = 0], raise)

\* RetryAllowed with <= for <
RetryAllowedOffByOne(attempt) ==
    attempt <= ctx.attempts

\* onread / onwrite: "self.attempt < self.ctx.attempts"
RetryAllowed(attempt) ==
    attempt < ctx.attempts

\* ReadRetry that does not count the retry
ReadRetryUncounted(r, raise) ==
    Read([r EXCEPT !.session_timeout = @ * 2, !.attempt = @ + 1], raise)

\* Recovery.onread, the retry branch
ReadRetry(r, raise) ==
    LET s == [r EXCEPT !.session_timeout = @ * 2, !.attempt = @ + 1]
        t == Read(s, raise)
    IN  [t EXCEPT !.stats.read_retries = @ + 1]

\* Recovery.onread, attempts exhausted
ReadFailed(r) ==
    [r EXCEPT !.result = FALSE, !.stats.read_failed = @ + 1]

\* Recovery.onread, the read succeeded; resp: results[0]
ReadDone(r, resp, raise) ==
    LET s == [r EXCEPT !.timestamp = IF r.recovered_size = 0 THEN resp.timestamp ELSE @,
                       !.stats.read = @ + 1,
                       !.write_size = resp.size,
                       !.total_size = resp.total_size,
                       !.stats.read_bytes = @ + resp.size,
                       !.attempt = 0,
                       !.log.ok_reads = @ + 1]
    IN  WriteOrRaise(s, raise)

\* Recovery.onread
OnReadFn(r, ok, resp, raise) ==
    LET s == [r EXCEPT !.read_result = "none"]
    IN  IF ~ok
        THEN IF RetryAllowed(s.attempt) THEN ReadRetry(s, raise) ELSE ReadFailed(s)
        ELSE ReadDone(s, resp, raise)

\* Recovery.onwrite, the retry branch
WriteRetry(r, raise) ==
    LET s == [r EXCEPT !.session_timeout = @ * 2, !.attempt = @ + 1,
                       !.stats.write_retries = @ + 1]
    IN  WriteOrRaise(s, raise)

\* WriteDone with the test of "more chunks to read" inverted
WriteDoneInverted(r, raise) ==
    LET s == [r EXCEPT !.stats.write = @ + 1,
                       !.stats.written_bytes = @ + r.write_size,
                       !.recovered_size = @ + r.write_size,
                       !.attempt = 0]
    IN  IF s.recovered_size >= s.total_size THEN Read(s, raise) ELSE Remove(s)

\* Recovery.onwrite, the write succeeded
WriteDone(r, raise) ==
    LET kind == r.write_req.kind
        s == [r EXCEPT !.stats.write = @ + 1,
                       !.stats.written_bytes = @ + r.write_size,
                       !.recovered_size = @ + r.write_size,
                       !.attempt = 0,
                       !.log.ok_prepares = @ + (IF kind = "prepare" THEN 1 ELSE 0),
                       !.log.ok_plains = @ + (IF kind = "plain" THEN 1 ELSE 0),
                       !.log.ok_commits = @ + (IF kind = "commit" THEN 1 ELSE 0),
                       !.log.ok_datas = @ + (IF kind = "data" THEN 1 ELSE 0)]
    IN  IF s.recovered_size < s.total_size THEN Read(s, raise) ELSE Remove(s)

\* WriteFailed without its return: control falls through to the success path
WriteFailedFallsThrough(r) ==
    WriteDone([r EXCEPT !.result = FALSE, !.stats.write_failed = @ + 1], FALSE)

\* Recovery.onwrite, attempts exhausted
WriteFailed(r) ==
    [r EXCEPT !.result = FALSE, !.stats.write_failed = @ + 1]

\* Recovery.onwrite
OnWriteFn(r, ok, raise) ==
    LET s == [r EXCEPT !.write_result = "none"]
    IN  IF ~ok
        THEN IF RetryAllowed(s.attempt) THEN WriteRetry(s, raise) ELSE WriteFailed(s)
        ELSE WriteDone(s, raise)

\* Recovery.onremove; removed: what RemoveDirect reports
OnRemoveFn(r, removed) ==
    Callback([r EXCEPT !.remove_result = "none",
                       !.result = @ /\ removed,
                       !.stats.removed = @ + (IF removed THEN 1 ELSE 0),
                       !.stats.remove_failed = @ + (IF removed THEN 0 ELSE 1)])

\* ------------------------------------------------------------ the storage

\* read_data(key, offset, size) on a node holding replica rep
ReadResponse(rep, req) ==
    [size |-> IF req.size = 0 THEN rep.size - req.offset
              ELSE Min(req.size, rep.size - req.offset),
     total_size |-> rep.size,
     timestamp |-> rep.ts]

\* The owner's replica after an acknowledged write: write_data and
\* write_commit make the object visible, write_prepare and write_plain do not.
Written(rep, req) ==
    IF req.kind = "data" THEN [ts |-> Now, size |-> req.offset + req.size]
    ELSE IF req.kind = "commit" THEN [ts |-> Now, size |-> req.psize]
    ELSE rep

\* ---------------------------------------------------------------- recover

\* recover(ctx, address, group, node, results, stats) at its first line
NewDriver(results) ==
    [pc |-> IF Len(results) < 1 THEN "done" ELSE "launch",
     results |-> results, next |-> 1, recovers |-> <<>>, widx |-> 1,
     ret |-> TRUE, main_ret |-> TRUE, batch_of |-> [k \in Keys |-> 0],
     folded |-> [k \in Keys |-> [done |-> FALSE, result |-> TRUE, stats |-> ZeroStat]]]

\* recover() is not running (a lone Recovery, or dump recovery).
NoDriver == [NewDriver(<<>>) EXCEPT !.pc = "none"]

\* groupby key: the batch of the i-th record (x[0] / ctx.batch_size)
BatchId(i) ==
    (i - 1) \div ctx.batch_size

\* ------------------------------------------------------------- get_ranges

\* elliptics.Id([0] * 64, group)
ID_MIN == 0

\* elliptics.Id([255] * 64, group)
ID_MAX == KeyMax

\* the elements of a set of numbers in increasing order
RECURSIVE Sorted(_)
Sorted(S) ==
    IF S = {} THEN <<>>
    ELSE LET m == CHOOSE x \in S : \A y \in S : x <= y
         IN  <<m>> \o Sorted(S \ {m})

\* The routing tables of one group: sorted ranges (lo, hi) with lo < hi, each
\* with its owner, the first starting at ID_MIN, the last ending at ID_MAX and
\* each starting where the one before it ends.
RouteLists ==
    UNION {LET p == Sorted({ID_MIN, ID_MAX} \cup cuts)
           IN  {[i \in 1..(Len(p) - 1) |-> [lo |-> p[i], hi |-> p[i + 1], address |-> o[i]]] :
                   o \in [1..(Len(p) - 1) -> Addrs]}
           : cuts \in SUBSET ((ID_MIN + 1)..(ID_MAX - 1))}

\* No routing table (the operation under study does not read it).
NoRoutes == [list |-> <<>>, merges |-> FALSE]

\* routes.addresses()
AddressesIn(rl) ==
    {rl.list[i].address : i \in DOMAIN rl.list}

\* adjacent owned ranges joined into one
RECURSIVE Merge(_)
Merge(q) ==
    IF Len(q) < 2 THEN q
    ELSE IF q[1][2] = q[2][1]
    THEN Merge(<< <<q[1][1], q[2][2]>> >> \o SubSeq(q, 3, Len(q)))
    ELSE <<q[1]>> \o Merge(Tail(q))

\* routes.get_address_ranges(addr): the ranges addr owns, in the order of the
\* table, as the table lists them or with adjacent ones joined.
GetAddressRanges(rl, addr) ==
    LET own == SelectSeq(rl.list, LAMBDA r : r.address = addr)
        listed == [i \in DOMAIN own |-> <<own[i].lo, own[i].hi>>]
    IN  IF rl.merges THEN Merge(listed) ELSE listed

\* get_ranges, the body of "for addr in addresses" after the test for an
\* address without ranges
ForeignRanges(addr_ranges) ==
    LET n == Len(addr_ranges)
    IN  (IF addr_ranges[1][1] # ID_MIN
         THEN << <<ID_MIN, addr_ranges[1][1]>> >> ELSE <<>>)
        \o [i \in 1..(n - 1) |-> <<addr_ranges[i][2], addr_ranges[i + 1][1]>>]
        \o (IF addr_ranges[n][2] # ID_MAX
            THEN << <<addr_ranges[n][2], ID_MAX>> >> ELSE <<>>)

\* get_ranges has not returned
NoRanges == [state |-> "unset", map |-> <<>>]

\* get_ranges(ctx, group)
GetRangesFn(c, rl) ==
    IF c.one_node /\ c.address \notin AddressesIn(rl)
    THEN [state |-> "None", map |-> <<>>]
    ELSE LET addresses == IF c.one_node THEN {c.address} ELSE AddressesIn(rl)
             kept == {addr \in addresses : Len(GetAddressRanges(rl, addr)) # 0}
         IN  [state |-> "dict",
              map |-> [addr \in kept |-> ForeignRanges(GetAddressRanges(rl, addr))]]

\* ------------------------------------------------------------ DumpRecover

\* What LookupDirect hands to DumpRecover.onlookup: the replica found on
\* `address`, or a miss (ts = -1: the result is false in the source).
Miss == [address |-> 0, ts |-> -1, size |-> 0]

Found(a, rep) ==
    IF rep.ts = -1 THEN Miss ELSE [address |-> a, ts |-> rep.ts, size |-> rep.size]

\* DumpRecover.__init__; address: session.lookup_address(id, group).  pc is
\* the position of the thread of dump_process_group in DumpRecover.wait, and
\* waits how many calls of wait() have returned.
NewDumpRecover(address) ==
    [active |-> TRUE, address |-> address, issued |-> 0, async_lookups |-> "list",
     inflight |-> {}, lookup_results |-> <<>>, recover_address |-> 0,
     timestamp |-> -1, size |-> 0, result |-> TRUE,
     async_removes |-> <<>>, rm_inflight |-> {},
     pc |-> "w_lookups", waits |-> 0,
     checks |-> 0, seen |-> 0, raised |-> "no", recovers |-> 0, cleanups |-> 0]

\* No DumpRecover object: merge recovery.
NoDump == [NewDumpRecover(0) EXCEPT !.active = FALSE]

SeqMax(q) ==
    CHOOSE m \in {q[i] : i \in DOMAIN q} : \A i \in DOMAIN q : q[i] <= m

\* [r.address for r in q]
AddressesOf(q) ==
    [i \in DOMAIN q |-> q[i].address]

\* Winners with the size of the replicas left out of the selection
WinnersIgnoreSize(lookup_results) ==
    LET ok(r) == r.ts # -1
        found == SelectSeq(lookup_results, ok)
        max_ts == SeqMax([i \in DOMAIN found |-> found[i].ts])
        latest(r) == r.ts # -1 /\ r.ts = max_ts
        results == SelectSeq(lookup_results, latest)
    IN  [max_ts |-> max_ts, max_size |-> results[1].size,
         addresses |-> AddressesOf(results)]

\* DumpRecover.check: the addresses of the replicas with the greatest
\* timestamp and, among those, the greatest size, in arrival order
Winners(lookup_results) ==
    LET ok(r) == r.ts # -1
        found == SelectSeq(lookup_results, ok)
        max_ts == SeqMax([i \in DOMAIN found |-> found[i].ts])
        latest(r) == r.ts # -1 /\ r.ts = max_ts
        results == SelectSeq(lookup_results, latest)
        max_size == SeqMax([i \in DOMAIN results |-> results[i].size])
        biggest(r) == r.size = max_size
    IN  [max_ts |-> max_ts, max_size |-> max_size,
         addresses |-> AddressesOf(SelectSeq(results, biggest))]

\* RemoveAddresses that leaves out the owner but not the recovery source
RemoveAddressesWithSource(d) ==
    LET stale(r) == r.ts # -1 /\ r.address \notin {d.address}
    IN  AddressesOf(SelectSeq(d.lookup_results, stale))

\* DumpRecover.remove: the nodes the key is to be removed from
RemoveAddresses(d) ==
    LET stale(r) == r.ts # -1 /\ r.address \notin {d.address, d.recover_address}
    IN  AddressesOf(SelectSeq(d.lookup_results, stale))

\* DumpRecover.remove
DumpRemove(d) ==
    LET addresses == RemoveAddresses(d)
        c == [d EXCEPT !.cleanups = @ + 1]
    IN  IF addresses # <<>> /\ ~ctx.safe
        THEN [c EXCEPT !.async_removes = @ \o addresses,
                       !.rm_inflight = @ \cup {addresses[i] : i \in DOMAIN addresses}]
        ELSE c

\* DumpRecover.onrecover, the callback of the nested Recovery
OnRecover(d, result) ==
    DumpRemove([d EXCEPT !.result = @ /\ result])

\* DumpRecover.check up to the choice between remove() and recover();
\* max() of an empty list raises when no lookup found the key (raised tells
\* whether the last call of check did)
DumpCheck(d) ==
    LET ok(r) == r.ts # -1
        c == [d EXCEPT !.checks = @ + 1, !.seen = Len(d.lookup_results), !.raised = "no"]
    IN  IF SelectSeq(d.lookup_results, ok) = <<>>
        THEN [c EXCEPT !.raised = "check"]
        ELSE LET w == Winners(d.lookup_results)
                 in(q, x) == \E i \in DOMAIN q : q[i] = x
             IN  IF in(w.addresses, d.address)
                 THEN DumpRemove(c)
                 ELSE [c EXCEPT !.timestamp = w.max_ts, !.size = w.max_size,
                                !.recover_address = w.addresses[1],
                                !.recovers = @ + 1]

\* ---------------------------------------------------------------- actions

\* A handler of Recovery k leaves the object as r2: when it called the
\* callback, and the callback is DumpRecover.onrecover, that ran too.
Deliver(k, r2) ==
    /\ rec' = [rec EXCEPT ![k] = r2]
    /\ dump' = IF dump.active /\ r2.log.cb > rec[k].log.cb
               THEN OnRecover(dump, r2.result)
               ELSE dump

\* Recovery.run()
Run(k) ==
    /\ k \in live
    /\ ~dump.active
    /\ \/ rec[k].log.runs = 0
       \/ AlreadyOnRightNode(owner[k], rec[k]) /\ rec[k].log.runs < MaxRuns
    /\ \E raise \in BOOLEAN :
          Deliver(k, RunFn(rec[k], owner[k], raise))
    /\ UNCHANGED <<ctx, owner, store, live, drv, routes, ranges>>

\* LookupDirect completes and calls Recovery.onlookup
OnLookup(k) ==
    /\ k \in live
    /\ rec[k].lookup_result = "pending"
    /\ \E result \in {NoReplica, store[k][rec[k].dest_address]}, raise \in BOOLEAN :
          Deliver(k, OnLookupFn(rec[k], result, raise))
    /\ UNCHANGED <<ctx, owner, store, live, drv, routes, ranges>>

\* the read completes and calls Recovery.onread
OnRead(k) ==
    /\ k \in live
    /\ rec[k].read_result = "pending"
    /\ LET rep == store[k][rec[k].address]
       IN  \E ok \in BOOLEAN, raise \in BOOLEAN :
              /\ ok => rep.ts # -1 /\ rep.size > rec[k].read_req.offset
              /\ Deliver(k, OnReadFn(rec[k], ok, ReadResponse(rep, rec[k].read_req), raise))
    /\ UNCHANGED <<ctx, owner, store, live, drv, routes, ranges>>

\* the write completes and calls Recovery.onwrite
OnWrite(k) ==
    /\ k \in live
    /\ rec[k].write_result = "pending"
    /\ \E ok \in BOOLEAN, raise \in BOOLEAN :
          /\ Deliver(k, OnWriteFn(rec[k], ok, raise))
          /\ store' = IF ok
                      THEN [store EXCEPT ![k][rec[k].dest_address] =
                                            Written(@, rec[k].write_req)]
                      ELSE store
    /\ UNCHANGED <<ctx, owner, live, drv, routes, ranges>>

\* RemoveDirect completes and calls Recovery.onremove
OnRemove(k) ==
    /\ k \in live
    /\ rec[k].remove_result = "pending"
    /\ \E removed \in BOOLEAN :
          /\ Deliver(k, OnRemoveFn(rec[k], removed))
          /\ store' = IF removed
                      THEN [store EXCEPT ![k][rec[k].address] = NoReplica]
                      ELSE store
    /\ UNCHANGED <<ctx, owner, live, drv, routes, ranges>>

\* DumpRecover.run, one turn of its loop: a LookupDirect to the next address.
\* After check() has set async_lookups to None the append raises.
DumpIssue ==
    /\ dump.active
    /\ dump.raised # "run"
    /\ dump.issued < NumAddrs
    /\ dump' = IF dump.async_lookups = "none"
               THEN [dump EXCEPT !.raised = "run"]
               ELSE [dump EXCEPT !.issued = @ + 1, !.inflight = @ \cup {dump.issued + 1}]
    /\ UNCHANGED <<ctx, owner, store, live, rec, drv, routes, ranges>>

\* a LookupDirect completes and calls DumpRecover.onlookup, which runs
\* check() when it holds as many results as lookups were issued; check()
\* starts the nested Recovery (recover: Recovery(...).run()) or the cleanup.
\* A lookup finds the replica the node holds; the lookup on the owner may
\* also fail (a failed lookup on another node looks to the task like a node
\* without the key).
DumpOnLookup(a) ==
    /\ dump.active
    /\ a \in dump.inflight
    /\ \E result \in {Found(a, store[1][a])} \cup
                       (IF a = dump.address THEN {Miss} ELSE {}),
          raise \in BOOLEAN :
          LET d == [dump EXCEPT !.inflight = @ \ {a},
                                !.lookup_results = Append(@, result)]
          IN  IF d.async_lookups = "list" /\ Len(d.lookup_results) = d.issued
              THEN LET c == DumpCheck(d)
                   IN  IF c.raised = "check"
                       THEN /\ dump' = c
                            /\ UNCHANGED <<live, rec>>
                       ELSE IF c.recovers > d.recovers
                       THEN LET r == RunFn(NewRecovery(c.timestamp, c.size,
                                                       c.recover_address, FALSE, TRUE),
                                           c.address, raise)
                            IN  /\ live' = live \cup {1}
                                /\ rec' = [rec EXCEPT ![1] = r]
                                /\ dump' = [(IF r.log.cb > 0 THEN OnRecover(c, r.result) ELSE c)
                                               EXCEPT !.async_lookups = "none"]
                       ELSE /\ dump' = [c EXCEPT !.async_lookups = "none"]
                            /\ UNCHANGED <<live, rec>>
              ELSE /\ dump' = d
                   /\ UNCHANGED <<live, rec>>
    /\ UNCHANGED <<ctx, owner, store, drv, routes, ranges>>

\* a RemoveDirect of the cleanup completes and calls DumpRecover.onremove
DumpOnRemove(a) ==
    /\ dump.active
    /\ a \in dump.rm_inflight
    /\ \E removed \in BOOLEAN :
          /\ dump' = [dump EXCEPT !.rm_inflight = @ \ {a}, !.result = @ /\ removed]
          /\ store' = IF removed THEN [store EXCEPT ![1][a] = NoReplica] ELSE store
    /\ UNCHANGED <<ctx, owner, live, rec, drv, routes, ranges>>

\* DumpRecover.wait, its first loop, entered when run() has returned to
\* dump_process_group: "self.r.wait()" raises AttributeError, which the loop
\* swallows, so the loop spins until onlookup has set async_lookups to None.
\* Then recover_result.wait() if check() created a Recovery.
DumpWaitLookups ==
    /\ dump.active
    /\ dump.pc = "w_lookups"
    /\ dump.issued = NumAddrs
    /\ dump.async_lookups = "none"
    /\ dump' = [dump EXCEPT !.pc = IF dump.recovers > 0 THEN "w_lookup" ELSE "w_removes"]
    /\ UNCHANGED <<ctx, owner, store, live, rec, drv, routes, ranges>>

\* DumpRecover.wait: recover_result.wait(), the four loops of Recovery.wait
\* one after the other
DumpWaitRecover ==
    /\ dump.active
    /\ \/ /\ dump.pc = "w_lookup"
          /\ rec[1].lookup_result # "pending"
          /\ dump' = [dump EXCEPT !.pc = "w_read"]
       \/ /\ dump.pc = "w_read"
          /\ rec[1].read_result # "pending"
          /\ dump' = [dump EXCEPT !.pc = "w_write"]
       \/ /\ dump.pc = "w_write"
          /\ rec[1].write_result # "pending"
          /\ dump' = [dump EXCEPT !.pc = "w_remove"]
       \/ /\ dump.pc = "w_remove"
          /\ rec[1].remove_result # "pending"
          /\ dump' = [dump EXCEPT !.pc = "w_removes"]
    /\ UNCHANGED <<ctx, owner, store, live, rec, drv, routes, ranges>>

\* DumpRecover.wait, "for r in self.async_removes: r.wait()", and its return.
\* dump_process_group calls r.wait() and then r.succeeded(), which calls
\* wait() once more.
DumpWaitRemoves ==
    /\ dump.active
    /\ dump.pc = "w_removes"
    /\ dump.rm_inflight = {}
    /\ dump' = [dump EXCEPT !.waits = @ + 1,
                            !.pc = IF dump.waits = 0 THEN "w_lookups" ELSE "returned"]
    /\ UNCHANGED <<ctx, owner, store, live, rec, drv, routes, ranges>>

\* recover(), the inner loop "for _, response in batch": a Recovery for the
\* next record of the batch is constructed and run; after the last record of
\* the batch the thread goes on to "for r in recovers: r.succeeded()"
Launch ==
    /\ drv.pc = "launch"
    /\ LET i == drv.next
           response == drv.results[i]
           k == response.key
           last == i = Len(drv.results) \/ BatchId(i + 1) # BatchId(i)
       IN  \E raise \in BOOLEAN :
              /\ rec' = [rec EXCEPT ![k] =
                           RunFn(NewRecovery(response.timestamp, response.size,
                                             1, TRUE, FALSE), owner[k], raise)]
              /\ live' = live \cup {k}
              /\ drv' = [drv EXCEPT !.next = i + 1,
                                    !.recovers = Append(@, k),
                                    !.batch_of[k] = BatchId(i) + 1,
                                    !.widx = 1,
                                    !.pc = IF last THEN "w_lookup" ELSE "launch"]
    /\ UNCHANGED <<ctx, owner, store, dump, routes, ranges>>

\* the Recovery the thread of recover() is waiting for
Waited ==
    rec[drv.recovers[drv.widx]]

\* Recovery.wait, first loop: left when lookup_result is unset or None
WaitLookup ==
    /\ drv.pc = "w_lookup"
    /\ Waited.lookup_result # "pending"
    /\ drv' = [drv EXCEPT !.pc = "w_read"]
    /\ UNCHANGED <<ctx, owner, store, live, rec, dump, routes, ranges>>

\* Recovery.wait, second loop: left when read_result is unset or None
WaitRead ==
    /\ drv.pc = "w_read"
    /\ Waited.read_result # "pending"
    /\ drv' = [drv EXCEPT !.pc = "w_write"]
    /\ UNCHANGED <<ctx, owner, store, live, rec, dump, routes, ranges>>

\* Recovery.wait, third loop: left when write_result is unset or None
WaitWrite ==
    /\ drv.pc = "w_write"
    /\ Waited.write_result # "pending"
    /\ drv' = [drv EXCEPT !.pc = "w_remove"]
    /\ UNCHANGED <<ctx, owner, store, live, rec, dump, routes, ranges>>

\* Recovery.wait, fourth loop: left when remove_result is unset or None
WaitRemove ==
    /\ drv.pc = "w_remove"
    /\ Waited.remove_result # "pending"
    /\ drv' = [drv EXCEPT !.pc = "fold"]
    /\ UNCHANGED <<ctx, owner, store, live, rec, dump, routes, ranges>>

\* recover(): "ret &= r.succeeded(); rs += r.stats", then the next Recovery
\* of the batch, the next batch, or the return
Fold ==
    /\ drv.pc = "fold"
    /\ LET k == drv.recovers[drv.widx]
           f == [drv EXCEPT !.ret = @ /\ rec[k].result,
                            !.folded[k] = [done |-> TRUE, result |-> rec[k].result,
                                           stats |-> rec[k].stats]]
       IN  drv' = IF drv.widx < Len(drv.recovers)
                  THEN [f EXCEPT !.widx = @ + 1, !.pc = "w_lookup"]
                  ELSE IF drv.next <= Len(drv.results)
                  THEN [f EXCEPT !.recovers = <<>>, !.widx = 1, !.pc = "launch"]
                  ELSE [f EXCEPT !.pc = "done"]
    /\ UNCHANGED <<ctx, owner, store, live, rec, dump, routes, ranges>>

\* get_ranges(ctx, group) is called and returns
GetRanges ==
    /\ ranges.state = "unset"
    /\ ranges' = GetRangesFn(ctx, routes)
    /\ UNCHANGED <<ctx, owner, store, live, rec, dump, drv, routes>>


\* MainFold with "or" for "and"
MainFoldOr(ret, result) ==
    ret \/ result

\* main: "ret &= p.get(timeout)"
MainFold(ret, result) ==
    ret /\ result

\* recover() has returned: process_node returns its value, main folds the
\* result of the pool task into ret and, no exception being raised and no
\* other pool task or group being left, returns ret
MainReturn ==
    /\ drv.pc = "done"
    /\ drv' = [drv EXCEPT !.pc = "returned", !.main_ret = MainFold(@, drv.ret)]
    /\ UNCHANGED <<ctx, owner, store, live, rec, dump, routes, ranges>>

\* ----------------------------------------------------------- specification

\* the replicas of a key that node 1 holds as r1 and node 2 as r2
Holder(r1, r2) ==
    [a \in Addrs |-> IF a = 1 THEN r1 ELSE IF a = 2 THEN r2 ELSE NoReplica]

\* the replicas of a key no node holds
NoKey ==
    [a \in Addrs |-> NoReplica]

\* A Recovery object that was never constructed.
Idle == NewRecovery(0, 1, 1, FALSE, FALSE)

\* One Recovery object just constructed for a key the iterator reported on
\* node 1, under every configuration.
InitTask ==
    /\ dump = NoDump
    /\ drv = NoDriver
    /\ routes = NoRoutes
    /\ ranges = NoRanges
    /\ ctx \in [safe : BOOLEAN, dry_run : BOOLEAN,
                attempts : 0..MaxAttempts, chunk_size : 1..MaxChunk,
                batch_size : {1}]
    /\ \E o \in 1..2, s1 \in 1..MaxSize,
          r2 \in {NoReplica} \cup [ts : 0..MaxTs, size : {1}] :
          /\ o = 1 => r2 = NoReplica
          /\ owner = [k \in Keys |-> IF k = 1 THEN o ELSE 1]
          /\ store = [k \in Keys |-> IF k = 1 THEN Holder([ts |-> 1, size |-> s1], r2)
                                     ELSE NoKey]
    /\ live = {1}
    /\ \E size \in 1..MaxSize, check \in BOOLEAN, callback \in BOOLEAN :
          rec = [k \in Keys |-> IF k = 1 THEN NewRecovery(1, size, 1, check, callback)
                                 ELSE Idle]

\* One DumpRecover object just constructed for key 1 of the dump file.  A
\* node holds no replica of the key, an old one, or one with the greatest
\* timestamp and one of two sizes; objects fit in one chunk and a failed
\* request is not retried (chunking and retries are those of Spec).  The
\* nodes differ by the order in which run() looks them up: the owner is the
\* first node or the second.
InitDump ==
    /\ drv = NoDriver
    /\ routes = NoRoutes
    /\ ranges = NoRanges
    /\ ctx \in [safe : BOOLEAN, dry_run : BOOLEAN,
                attempts : {0}, chunk_size : {MaxSize}, batch_size : {1}]
    /\ \E o \in 1..2,
          s \in [Addrs -> {NoReplica,
                           [ts |-> MaxTs - 1, size |-> MaxSize],
                           [ts |-> MaxTs, size |-> MaxSize - 1],
                           [ts |-> MaxTs, size |-> MaxSize]}] :
          /\ owner = [k \in Keys |-> IF k = 1 THEN o ELSE 1]
          /\ store = [k \in Keys |-> IF k = 1 THEN s ELSE NoKey]
          /\ dump = NewDumpRecover(o)
    /\ live = {}
    /\ rec = [k \in Keys |-> Idle]

\* The life of one Recovery object.
Init ==
    InitTask

Next ==
    \E k \in Keys :
       \/ Run(k)
       \/ OnLookup(k)
       \/ OnRead(k)
       \/ OnWrite(k)
       \/ OnRemove(k)

Spec == Init /\ [][Next]_vars

\* The life of one DumpRecover object and of the Recovery it starts.
NextDump ==
    \/ DumpIssue
    \/ \E a \in Addrs :
          \/ DumpOnLookup(a)
          \/ DumpOnRemove(a)
    \/ \E k \in Keys :
          \/ OnRead(k)
          \/ OnWrite(k)
          \/ OnRemove(k)

SpecDump == InitDump /\ [][NextDump]_vars

\* A DumpRecover object for a key of which some node holds a replica with the
\* greatest timestamp and the greatest size a replica can have: that replica
\* is the newest one of the group, whatever the other nodes hold.
InitDumpNewest ==
    /\ InitDump
    /\ \E a \in Addrs : store[1][a] = [ts |-> MaxTs, size |-> MaxSize]

SpecDumpNewest == InitDumpNewest /\ [][NextDump]_vars

\* A DumpRecover object for a key of which every node holds the newest
\* replica or none (no node may hold it), not in dry run.
InitDumpWait ==
    /\ InitDump
    /\ ~ctx.dry_run
    /\ \A a \in Addrs : store[1][a] \in {NoReplica, [ts |-> MaxTs, size |-> MaxSize]}

\* The task with the thread of dump_process_group that waits for it.  That
\* thread keeps running, and every request that was issued completes and has
\* its callback run.
NextDumpWait ==
    \/ NextDump
    \/ DumpWaitLookups
    \/ DumpWaitRecover
    \/ DumpWaitRemoves

SpecDumpWait ==
    /\ InitDumpWait
    /\ [][NextDumpWait]_vars
    /\ WF_vars(DumpIssue)
    /\ WF_vars(DumpWaitLookups)
    /\ WF_vars(DumpWaitRecover)
    /\ WF_vars(DumpWaitRemoves)
    /\ \A a \in Addrs : WF_vars(DumpOnLookup(a)) /\ WF_vars(DumpOnRemove(a))
    /\ \A k \in Keys : WF_vars(OnRead(k)) /\ WF_vars(OnWrite(k)) /\ WF_vars(OnRemove(k))

\* recover() over the records the iterator found on node 1: every record
\* reports the size and timestamp of the replica node 1 holds, the object
\* fits in one chunk or takes several, and the owner holds no copy, an older
\* or a newer one.  A failed request is not retried (retries are those of
\* Spec).
InitBatch ==
    /\ dump = NoDump
    /\ routes = NoRoutes
    /\ ranges = NoRanges
    /\ ctx \in [safe : BOOLEAN, dry_run : {FALSE}, attempts : {0},
                chunk_size : {MaxChunk}, batch_size : 1..MaxRecords]
    /\ \E c \in [Keys -> {x \in [owner : 1..2, size : {1, MaxSize},
                                  r2 : {NoReplica, [ts |-> 0, size |-> 1],
                                        [ts |-> MaxTs, size |-> 1]}] :
                             x.owner = 1 => x.r2 = NoReplica}] :
          /\ owner = [k \in Keys |-> c[k].owner]
          /\ store = [k \in Keys |-> Holder([ts |-> 1, size |-> c[k].size], c[k].r2)]
    /\ live = {}
    /\ rec = [k \in Keys |-> Idle]
    /\ drv = NewDriver([i \in 1..MaxRecords |->
                           [key |-> i, timestamp |-> store[i][1].ts,
                            size |-> store[i][1].size]])

NextBatch ==
    \/ Launch
    \/ WaitLookup
    \/ WaitRead
    \/ WaitWrite
    \/ WaitRemove
    \/ Fold
    \/ MainReturn
    \/ \E k \in Keys :
          \/ OnLookup(k)
          \/ OnRead(k)
          \/ OnWrite(k)
          \/ OnRemove(k)

SpecBatch == InitBatch /\ [][NextBatch]_vars

\* recover() and main over records of objects that fit in one chunk and of
\* which the owner holds no copy or a newer one.
InitMain ==
    /\ InitBatch
    /\ \A k \in Keys : store[k][1].size = 1 /\ store[k][2].ts # 0

SpecMain == InitMain /\ [][NextBatch]_vars

\* get_ranges over every routing table of a group of NumAddrs nodes, for all
\* nodes or for the node of ctx.address alone.
InitRanges ==
    /\ dump = NoDump
    /\ drv = NoDriver
    /\ ctx \in [safe : {FALSE}, dry_run : {FALSE}, attempts : {0},
                chunk_size : {MaxChunk}, batch_size : {1},
                one_node : BOOLEAN, address : Addrs]
    /\ owner = [k \in Keys |-> 1]
    /\ store = [k \in Keys |-> NoKey]
    /\ live = {}
    /\ rec = [k \in Keys |-> Idle]
    /\ routes \in [list : RouteLists, merges : BOOLEAN]
    /\ ranges = NoRanges

NextRanges ==
    GetRanges

SpecRanges == InitRanges /\ [][NextRanges]_vars

\* Safe mode, merge and dump recovery alike.  No remove is ever outstanding
\* in safe mode, so the handlers that complete one are left out.
InitSafe ==
    (InitTask \/ InitDump) /\ ctx.safe

NextSafe ==
    \/ \E k \in Keys :
          \/ Run(k)
          \/ OnLookup(k)
          \/ OnRead(k)
          \/ OnWrite(k)
    \/ DumpIssue
    \/ \E a \in Addrs : DumpOnLookup(a)

SpecSafe == InitSafe /\ [][NextSafe]_vars

\* ------------------------------------------------------------------ claims

\* writes the owner acknowledged
OkWrites(r) ==
    r.log.ok_prepares + r.log.ok_plains + r.log.ok_commits + r.log.ok_datas

\* write requests issued
Writes(r) ==
    r.log.prepares + r.log.plains + r.log.commits + r.log.datas

\* requests of the task that have not completed
Pending(r) ==
    {f \in {"lookup", "read", "write", "remove"} :
        CASE f = "lookup" -> r.lookup_result = "pending"
          [] f = "read" -> r.read_result = "pending"
          [] f = "write" -> r.write_result = "pending"
          [] OTHER -> r.remove_result = "pending"}

\* C1: whenever a Recovery task has issued a REMOVE against the holder, it
\* has had a write acknowledged by the owner before, or just_remove is set and
\* the owner's lookup returned a timestamp newer than key_timestamp.
C1_DataSafety ==
    \A k \in live :
        rec[k].log.removes > 0 =>
            \/ OkWrites(rec[k]) >= 1
            \/ rec[k].just_remove /\ rec[k].log.seen_ts > rec[k].key_timestamp

C1_Witness ==
    \E k \in live :
        /\ rec[k].log.removes > 0
        /\ ~rec[k].just_remove
        /\ rec[k].log.ok_commits = 1

\* C2: in safe mode no REMOVE is issued, neither by a Recovery task nor by
\* the cleanup of a DumpRecover task.
C2_SafeMode ==
    ctx.safe =>
        /\ \A k \in live : rec[k].log.removes = 0 /\ rec[k].remove_result = "unset"
        /\ dump.async_removes = <<>>
        /\ dump.rm_inflight = {}

\* safe mode, at a point where the source removes the key otherwise: a
\* just_remove decided, or cleanup entered by a DumpRecover that found the
\* key on a node other than the owner and the source
C2_Witness ==
    /\ ctx.safe
    /\ \/ \E k \in live : ~dump.active /\ rec[k].just_remove /\ ~ctx.dry_run
       \/ /\ dump.active
          /\ dump.async_lookups = "none"
          /\ dump.recovers = 0
          /\ RemoveAddresses(dump) # <<>>

\* C3: with ctx.dry_run a Recovery task issues no READ, no WRITE and no
\* REMOVE, whatever check is and whatever the lookup returns; it issues a
\* lookup only when check is set.
C3_DryRun ==
    \A k \in live :
        ctx.dry_run =>
            /\ rec[k].log.reads = 0
            /\ Writes(rec[k]) = 0
            /\ rec[k].log.removes = 0
            /\ rec[k].log.lookups > 0 => rec[k].check

C3_Witness ==
    \E k \in live :
        /\ ctx.dry_run
        /\ rec[k].check
        /\ rec[k].lookup_result = "none"
        /\ rec[k].just_remove

\* C4: for a key whose routed owner is the holder, every run() ends in the
\* skipped outcome: stats.skipped grows by one per run, result stays true and
\* no lookup, read, write or remove is ever issued, however often run() is
\* called.
C4_AlreadyInPlace ==
    \A k \in live :
        owner[k] = rec[k].address =>
            /\ rec[k].stats.skipped = rec[k].log.runs
            /\ rec[k].result
            /\ rec[k].log.lookups = 0
            /\ rec[k].log.reads = 0
            /\ Writes(rec[k]) = 0
            /\ rec[k].log.removes = 0
            /\ Pending(rec[k]) = {}

C4_Witness ==
    \E k \in live :
        /\ owner[k] = rec[k].address
        /\ rec[k].log.runs >= 2
        /\ rec[k].stats.skipped = rec[k].log.runs

\* the task has had a READ or a WRITE fail with its attempts exhausted
TerminallyFailed(r) ==
    r.stats.read_failed > 0 \/ r.stats.write_failed > 0

\* C5: once a READ or a WRITE has failed with its attempts exhausted, the
\* task's result is false, nothing is outstanding, and no step issues a
\* further read, write or remove.
C5_FailureStops ==
    /\ [](\A k \in live :
             TerminallyFailed(rec[k]) => ~rec[k].result /\ Pending(rec[k]) = {})
    /\ [][\A k \in live :
             TerminallyFailed(rec[k]) =>
                 /\ rec'[k].log.reads = rec[k].log.reads
                 /\ Writes(rec'[k]) = Writes(rec[k])
                 /\ rec'[k].log.removes = rec[k].log.removes]_vars

C5_Witness ==
    \E k \in live :
        /\ rec[k].stats.write_failed > 0
        /\ rec[k].log.ok_reads >= 1
        /\ rec[k].stats.write_retries >= 1

\* C6: one operation (the READ or the WRITE of one chunk) is issued at most
\* ctx.attempts + 1 times, and while it is outstanding the attempt counter
\* is the number of retries made for it: 0 for its first issue.
C6_RetryBound ==
    \A k \in live :
        /\ rec[k].log.tries <= ctx.attempts + 1
        /\ rec[k].attempt <= ctx.attempts
        /\ Pending(rec[k]) \cap {"read", "write"} # {} =>
               rec[k].attempt = rec[k].log.tries - 1

C6_Witness ==
    \E k \in live :
        /\ ctx.attempts >= 1
        /\ rec[k].write_result = "pending"
        /\ rec[k].log.tries = ctx.attempts + 1
        /\ rec[k].recovered_size > 0

\* a chunked task that came to its remove stage by its last write
ChunkedDone(r) ==
    /\ r.chunked
    /\ ~r.just_remove
    /\ OkWrites(r) >= 1
    /\ r.write_result = "none"
    /\ r.read_result = "none"
    /\ r.recovered_size >= r.total_size
    /\ ~TerminallyFailed(r)

\* C7: recover() runs its batches one after the other: while a task of a
\* later batch exists, no task of an earlier batch has a request outstanding;
\* at most ctx.batch_size tasks have a request outstanding; and the result and
\* stats recover() folded into the batch total are those the task ends with.
C7_BatchBarrier ==
    /\ \A k1 \in live, k2 \in live :
           drv.batch_of[k1] < drv.batch_of[k2] => Pending(rec[k1]) = {}
    /\ Cardinality({k \in live : Pending(rec[k]) # {}}) <= ctx.batch_size
    /\ \A k \in live :
           drv.folded[k].done =>
               /\ drv.folded[k].result = rec[k].result
               /\ drv.folded[k].stats = rec[k].stats

\* C8 as stated: a chunked task that reaches its remove stage has written
\* total_size bytes and has issued exactly one write_prepare and at most one
\* write_commit, retries included.
C8_AsStated ==
    \A k \in live :
        ChunkedDone(rec[k]) /\ rec[k].result =>
            /\ rec[k].stats.written_bytes = rec[k].total_size
            /\ rec[k].log.prepares = 1
            /\ rec[k].log.commits <= 1

\* C8 amended: a chunked task that reaches its remove stage has written
\* total_size bytes, has had exactly one write_prepare and at most one
\* write_commit acknowledged, and has issued each of the two at most
\* ctx.attempts + 1 times.
C8_ChunkingCompleteness ==
    \A k \in live :
        ChunkedDone(rec[k]) /\ rec[k].result =>
            /\ rec[k].stats.written_bytes = rec[k].total_size
            /\ rec[k].log.ok_prepares = 1
            /\ rec[k].log.ok_commits <= 1
            /\ rec[k].log.prepares <= ctx.attempts + 1
            /\ rec[k].log.commits <= ctx.attempts + 1

C8_Witness ==
    \E k \in live :
        /\ ChunkedDone(rec[k])
        /\ rec[k].result
        /\ rec[k].log.prepares = 2
        /\ rec[k].log.ok_plains = 1
        /\ rec[k].log.ok_commits = 1

\* C9: a task has at most one request outstanding; a read is outstanding
\* only after the lookup (when check) completed and every chunk read so far
\* was written; a write only for the chunk just read; a remove that is not a
\* just_remove only after the write that completed the object.
C9_Ordering ==
    \A k \in live :
        LET r == rec[k]
        IN  /\ Cardinality(Pending(r)) <= 1
            /\ r.lookup_result = "pending" =>
                   r.log.reads = 0 /\ Writes(r) = 0 /\ r.log.removes = 0
            /\ r.log.reads > 0 /\ r.check => r.lookup_result = "none"
            /\ r.read_result = "pending" =>
                   /\ r.log.ok_reads = OkWrites(r)
                   /\ r.read_req.offset = r.recovered_size
                   /\ r.log.removes = 0
            /\ r.write_result = "pending" =>
                   /\ r.log.ok_reads = OkWrites(r) + 1
                   /\ r.write_req.offset = r.recovered_size
                   /\ r.log.removes = 0
            /\ r.log.removes > 0 /\ ~r.just_remove =>
                   /\ OkWrites(r) >= 1
                   /\ r.log.ok_reads = OkWrites(r)
                   /\ r.recovered_size >= r.total_size
            /\ r.just_remove => r.log.reads = 0 /\ Writes(r) = 0

C9_Witness ==
    \E k \in live :
        /\ rec[k].check
        /\ rec[k].read_result = "pending"
        /\ rec[k].log.ok_reads = 1
        /\ OkWrites(rec[k]) = 1

\* the keys of a range (lo, hi): lo up to hi excluded, ID_MAX being the key
\* of the range that ends there
KeysOf(r) ==
    {x \in ID_MIN..ID_MAX : r[1] <= x /\ (x < r[2] \/ (x = ID_MAX /\ r[1] < r[2] /\ r[2] = ID_MAX))}

\* the ranges q are pairwise disjoint and cover the keyspace
Partition(q) ==
    /\ \A i \in DOMAIN q, j \in DOMAIN q : i # j => KeysOf(q[i]) \cap KeysOf(q[j]) = {}
    /\ UNION {KeysOf(q[i]) : i \in DOMAIN q} = ID_MIN..ID_MAX

\* C10: for every routing table and every address of it, the ranges
\* get_ranges returns for the address and the ranges the address owns are
\* pairwise disjoint, their union is the keyspace [ID_MIN, ID_MAX], and every
\* returned range (lo, hi) has lo < hi.
C10_ExactComplement ==
    ranges.state = "dict" =>
        \A addr \in DOMAIN ranges.map :
           /\ Partition(ranges.map[addr] \o GetAddressRanges(routes, addr))
           /\ \A i \in DOMAIN ranges.map[addr] :
                 ranges.map[addr][i][1] < ranges.map[addr][i][2]

\* the successful lookup responses DumpRecover held when check last ran
Responded(d) ==
    {d.lookup_results[i] : i \in {j \in 1..d.seen : d.lookup_results[j].ts # -1}}

\* the responses with the greatest timestamp and, among them, the greatest size
Newest(S) ==
    LET latest == {r \in S : \A q \in S : q.ts <= r.ts}
    IN  {r \in latest : \A q \in latest : q.size <= r.size}

\* C11: once check has selected among at least one successful response, the
\* winners are the responding addresses with the greatest timestamp and, among
\* those, the greatest size; with the owner among them no Recovery is started
\* (no read, no write); otherwise exactly one Recovery is started, with
\* check = false, a winner as its source and that timestamp and size.  With
\* no successful response there is no winner and no Recovery is started.
C11_WinnerSelection ==
    dump.checks > 0 =>
        IF dump.raised = "check"
        THEN Responded(dump) = {} /\ dump.recovers = 0 /\ live = {}
        ELSE LET W == Newest(Responded(dump))
                 w == Winners(SubSeq(dump.lookup_results, 1, dump.seen))
             IN  /\ {w.addresses[i] : i \in DOMAIN w.addresses} = {r.address : r \in W}
                 /\ IF dump.address \in {r.address : r \in W}
                    THEN /\ dump.recovers = 0
                         /\ live = {}
                         /\ rec[1].log.reads = 0 /\ Writes(rec[1]) = 0
                    ELSE /\ dump.recovers = 1
                         /\ live = {1}
                         /\ ~rec[1].check
                         /\ rec[1].log.lookups = 0
                         /\ rec[1].address \in {r.address : r \in W}
                         /\ rec[1].address = dump.recover_address
                         /\ \A r \in W : rec[1].key_timestamp = r.ts /\ dump.size = r.size
                         /\ rec[1].log.reads = 0 => rec[1].total_size = dump.size

\* C11 witness: among replicas of two timestamps, and two sizes at the greatest
\* timestamp, the Recovery that check started has copied the winner
C11_Witness ==
    /\ dump.recovers = 1
    /\ rec[1].stats.write = 1
    /\ \E r \in Responded(dump), q \in Responded(dump), p \in Responded(dump) :
          r.ts < q.ts /\ q.ts = p.ts /\ q.size < p.size

\* C12: with ctx.safe false, the cleanup of a DumpRecover issues one remove
\* to each address that answered its lookup successfully other than the owner
\* and the recovery source, and to no other address; no remove goes to the
\* owner; and when a Recovery was started the cleanup comes after its
\* callback fired.
C12_CleanupSet ==
    (dump.active /\ ~ctx.safe) =>
        LET issued == {dump.async_removes[i] : i \in DOMAIN dump.async_removes}
            answered == {dump.lookup_results[i].address :
                            i \in {j \in DOMAIN dump.lookup_results :
                                      dump.lookup_results[j].ts # -1}}
        IN  /\ dump.address \notin issued
            /\ Cardinality(issued) = Len(dump.async_removes)
            /\ dump.cleanups = 0 => issued = {}
            /\ dump.cleanups > 0 =>
                  issued = answered \ {dump.address, dump.recover_address}
            /\ (dump.cleanups > 0 /\ dump.recovers > 0) => rec[1].log.cb > 0

\* C12 witness: after the callback of the Recovery, the cleanup has issued a
\* remove to a node that is neither the owner nor the source
C12_Witness ==
    /\ ~ctx.safe
    /\ dump.recovers = 1
    /\ dump.cleanups = 1
    /\ rec[1].log.cb = 1
    /\ dump.async_removes # <<>>

\* C13 as stated: when main returns after a Recovery task ended with result
\* false (no cancellation, no exception of the pool), it returns true.
C13_AsStated ==
    (/\ drv.pc = "returned"
     /\ \E k \in live : ~rec[k].result /\ Pending(rec[k]) = {})
        => drv.main_ret

\* C13: main returns the conjunction of the results recover() folded: it
\* returns true exactly when every Recovery reported result true to
\* succeeded(), and false as soon as one reported false.
C13_AndReduce ==
    drv.pc = "returned" =>
        /\ \A k \in live : drv.folded[k].done
        /\ drv.main_ret = (\A k \in live : drv.folded[k].result)

\* C13 witness: main has returned false after one Recovery of two failed
C13_Witness ==
    /\ drv.pc = "returned"
    /\ ~drv.main_ret
    /\ \E k1 \in live, k2 \in live : ~drv.folded[k1].result /\ drv.folded[k2].result

C16_DumpDryRun ==
    (dump.active /\ ctx.dry_run /\ ~ctx.safe) =>
        /\ dump.async_removes = <<>>
        /\ \A k \in Keys :
              rec[k].log.reads = 0 /\ Writes(rec[k]) = 0 /\ rec[k].log.removes = 0

\* the completion of the outstanding READ of a task, from r to n (result
\* changes after a success only when issuing the next request raised)
ReadAccounted(r, n) ==
    LET s == r.stats
        t == n.stats
    IN  \/ /\ t.read = s.read + 1
           /\ t.read_retries = s.read_retries /\ t.read_failed = s.read_failed
           /\ s.read_retries = r.log.r0 + r.attempt
           /\ n.result = r.result \/ n.write_result # "pending"
        \/ /\ r.attempt < ctx.attempts
           /\ t.read_retries = s.read_retries + 1
           /\ t.read = s.read /\ t.read_failed = s.read_failed
           /\ n.result = r.result \/ n.read_result # "pending"
        \/ /\ r.attempt = ctx.attempts
           /\ t.read_failed = s.read_failed + 1
           /\ t.read_retries = s.read_retries /\ t.read = s.read
           /\ s.read_retries = r.log.r0 + ctx.attempts
           /\ ~n.result

\* the completion of the outstanding WRITE of a task, from r to n
WriteAccounted(r, n) ==
    LET s == r.stats
        t == n.stats
    IN  \/ /\ t.write = s.write + 1
           /\ t.write_retries = s.write_retries /\ t.write_failed = s.write_failed
           /\ s.write_retries = r.log.w0 + r.attempt
           /\ \/ n.result = r.result
              \/ n.recovered_size < n.total_size /\ n.read_result # "pending"
        \/ /\ r.attempt < ctx.attempts
           /\ t.write_retries = s.write_retries + 1
           /\ t.write = s.write /\ t.write_failed = s.write_failed
           /\ n.result = r.result \/ n.write_result # "pending"
        \/ /\ r.attempt = ctx.attempts
           /\ t.write_failed = s.write_failed + 1
           /\ t.write_retries = s.write_retries /\ t.write = s.write
           /\ s.write_retries = r.log.w0 + ctx.attempts
           /\ ~n.result

C18_CheckAfterAllLookups ==
    dump.active =>
        /\ dump.checks <= 1
        /\ dump.checks > 0 =>
              /\ dump.seen = NumAddrs
              /\ dump.issued = NumAddrs
              /\ dump.inflight = {}

\* C19: a Recovery in which issuing a request or handling a result raised an
\* exception has ended (nothing outstanding) with result false, and when a
\* callback was supplied the callback has been called exactly once.
C19_ExceptionFiresCallback ==
    \A k \in live :
       rec[k].log.exc > 0 =>
          /\ ~rec[k].result
          /\ Pending(rec[k]) = {}
          /\ rec[k].callback => rec[k].log.cb = 1

\* C20: the map get_ranges returns has no entry for an address whose owned
\* ranges cover the keyspace [ID_MIN, ID_MAX], and maps no address to an
\* empty list.
C20_CoveringOwnerOmitted ==
    ranges.state = "dict" =>
        /\ \A addr \in DOMAIN ranges.map : ranges.map[addr] # <<>>
        /\ \A addr \in AddressesIn(routes) :
              LET owned == GetAddressRanges(routes, addr)
              IN  UNION {KeysOf(owned[i]) : i \in DOMAIN owned} = ID_MIN..ID_MAX
                     => addr \notin DOMAIN ranges.map

\* C21: every retry of a READ is issued on the direct session, and every
\* retry of a WRITE on the routed session, with twice the timeout the failed
\* attempt was issued with; and no session of a task has its timeout doubled
\* more than ctx.attempts times (timeouts are in units of the initial one).
C21_TimeoutDoubling ==
    /\ [](\A k \in live :
             /\ rec[k].session_timeout <= 2 ^ ctx.attempts
             /\ rec[k].direct_timeout <= 2 ^ ctx.attempts)
    /\ [][\A k \in live :
             /\ (/\ rec[k].read_result = "pending"
                 /\ rec'[k].read_result = "pending"
                 /\ rec'[k].attempt = rec[k].attempt + 1) =>
                    rec'[k].direct_timeout = 2 * rec[k].direct_timeout
             /\ (/\ rec[k].write_result = "pending"
                 /\ rec'[k].write_result = "pending"
                 /\ rec'[k].attempt = rec[k].attempt + 1) =>
                    rec'[k].session_timeout = 2 * rec[k].session_timeout]_vars

\* C22: once a DumpRecover has looked up every address and every lookup has
\* delivered its result, wait() and succeeded() eventually return to
\* dump_process_group, also when every lookup was a miss.
C22_DumpTermination ==
    (dump.active /\ dump.issued = NumAddrs /\ dump.inflight = {})
        ~> (dump.pc = "returned")

\* C23: a Recovery that has issued a write_prepare and has issued the REMOVE
\* on the holder without just_remove has had a write_commit acknowledged by
\* the owner before, whatever total_size the read responses reported.
C23_CommitBeforeRemove ==
    \A k \in live :
       (/\ rec[k].log.prepares > 0
        /\ ~rec[k].just_remove
        /\ rec[k].log.removes > 0) =>
           rec[k].log.ok_commits >= 1

\* node a holds the newest replica of key 1 (under InitDumpNewest): the
\* replica itself, or the copy of it the Recovery wrote to the owner (a
\* written copy is stamped Now; the Recovery read it with the timestamp and
\* the size of the newest replica)
HoldsNewest(a) ==
    \/ store[1][a] = [ts |-> MaxTs, size |-> MaxSize]
    \/ /\ a = dump.address
       /\ 1 \in live
       /\ store[1][a] = [ts |-> Now, size |-> MaxSize]
       /\ rec[1].timestamp = MaxTs

\* C24: during a DumpRecover task some node always holds the newest replica
\* of the key (or a copy made of it), and a remove is outstanding on a node
\* that holds the newest replica only when the rightful owner holds it too.
C24_NewestSurvives ==
    dump.active =>
        /\ \E a \in Addrs : HoldsNewest(a)
        /\ \A a \in dump.rm_inflight \cup
                    {rec[k].address : k \in {j \in live : rec[j].remove_result = "pending"}} :
              HoldsNewest(a) => HoldsNewest(dump.address)

====
